---- MODULE Spec2Model ----
(***************************************************************************)
(* Model of src/utils/logger.py: resolution of the logging configuration   *)
(* file, setup_logging with its fallback configuration, and get_logger,    *)
(* acting on the process-wide logging backend (root logger, named logger   *)
(* registry) and on the logs/ directory.                                   *)
(***************************************************************************)
EXTENDS Integers, Sequences, FiniteSets, TLC

VARIABLES
    pc,         \* position of the caller / of setup_logging
    probe,      \* inputs of a bare _resolve_logging_config_path call
    result,     \* what that call returned
    root,       \* the root logger: [level, handlers]
    loggerDict, \* the registry of named loggers: name -> logger object
    disk,       \* logs/ and logs/app.log on the filesystem
    calls,      \* number of setup_logging calls started
    call,       \* the running (or last) setup_logging call
    trace,      \* what the running (or last) setup_logging call did, in order
    fallbacks,  \* number of consecutive completed fallback installations
    held        \* logger handles the caller got from get_logger

vars == <<pc, probe, result, root, loggerDict, disk, calls, call, trace, fallbacks, held>>

----------------------------------------------------------------------------
(* Bounds *)

MaxCalls == 3

(* Levels of the logging library *)
NOTSET == 0
DEBUG == 10
INFO == 20
WARNING == 30
ERROR == 40
CRITICAL == 50

None == "None"

(* Paths *)
DEFAULT_LOGGING_CONF_PATH == "config/logging.conf"
CustomPath == "custom.conf"
EnvPath == "env.conf"
Paths == {CustomPath, EnvPath, DEFAULT_LOGGING_CONF_PATH}

(* What the filesystem holds at a path: nothing (or something that is not a
   regular file), something whose probe raises (PermissionError), a regular
   file with a valid logging configuration, a regular file that fileConfig
   rejects. *)
FileStates == {"missing", "error", "valid", "malformed"}
FileSystems == [Paths -> FileStates]

(* The environment: variable name -> value, None when unset. *)
LOG_CFG == "LOG_CFG"
EnvNames == {LOG_CFG, "APP_LOG_CFG"}
EnvValues == {None, "", EnvPath}
Environments == [EnvNames -> EnvValues]

(* Values a caller passes as override_path / config_path. *)
Overrides == {None, "", CustomPath}

----------------------------------------------------------------------------
(* _resolve_logging_config_path *)

(* Python truthiness of an Optional[str]: None and "" are falsy. *)
Truthy(v) == v # None /\ v # ""

(* Path.is_file(): "True", "False", or "raise" when the probe raises. *)
is_file(fs, p) ==
    CASE fs[p] \in {"valid", "malformed"} -> "True"
      [] fs[p] = "error" -> "raise"
      [] OTHER -> "False"

(* Mutant: the environment variable's path is put before the override. *)
CandidatesEnvFirst(override_path, env_value) ==
    (IF Truthy(env_value) THEN <<env_value>> ELSE <<>>)
    \o (IF Truthy(override_path) THEN <<override_path>> ELSE <<>>)
    \o <<DEFAULT_LOGGING_CONF_PATH>>

(* The candidate list, lines 55-64. *)
Candidates(override_path, env_value) ==
    (IF Truthy(override_path) THEN <<override_path>> ELSE <<>>)
    \o (IF Truthy(env_value) THEN <<env_value>> ELSE <<>>)
    \o <<DEFAULT_LOGGING_CONF_PATH>>

(* The loop of lines 66-72: the first candidate that is a file; a probe that
   raises is caught and the loop continues. *)
RECURSIVE FirstFile(_, _)
FirstFile(candidates, fs) ==
    IF candidates = <<>> THEN None
    ELSE IF is_file(fs, Head(candidates)) = "True" THEN Head(candidates)
    ELSE FirstFile(Tail(candidates), fs)

resolve_logging_config_path(override_path, env_var, environ, fs) ==
    FirstFile(Candidates(override_path, environ[env_var]), fs)

----------------------------------------------------------------------------
(* The logging backend *)

MODULE_LOGGER == "src.utils.logger"
DEFAULT_LOGGER_NAME == "predictive_maintenance_system"
LoggerNames == {MODULE_LOGGER, DEFAULT_LOGGER_NAME, "m"}

(* Handlers: the StreamHandler of basicConfig, the RotatingFileHandler on
   logs/app.log, a handler built by fileConfig from a configuration file.
   inst is the setup_logging call that created the handler object. *)
Handler(kind, level, inst) == [kind |-> kind, level |-> level, inst |-> inst]

SinkOf(h) ==
    CASE h.kind = "console" -> "stderr"
      [] h.kind = "rotating_file" -> "logs/app.log"
      [] OTHER -> "config_sink"

(* A logger as logging.getLogger creates it. *)
NewLogger(id) == [id |-> id, level |-> NOTSET, propagate |-> TRUE, disabled |-> FALSE]

(* The root logger of a fresh interpreter. *)
FreshRoot == [level |-> WARNING, handlers |-> <<>>]

(* logging.getLogger(name) on the registry: the registry with the logger
   created when it is the first request for the name. *)
Registered(dict, name) ==
    IF name \in DOMAIN dict THEN dict
    ELSE [n \in DOMAIN dict \cup {name} |->
            IF n = name THEN NewLogger(Cardinality(DOMAIN dict) + 1) ELSE dict[n]]

(* Logger.getEffectiveLevel: the logger's own level, or the root's. *)
EffectiveLevel(lg, rt) == IF lg.level # NOTSET THEN lg.level ELSE rt.level

(* The sinks a record of level lvl logged through the named logger reaches
   (Logger.log: isEnabledFor, then callHandlers up to the root while the
   logger propagates; the handler of last resort writes records of WARNING
   and above to stderr when no handler was found). The named loggers of the
   model carry no handlers of their own. *)
Sinks(name, lvl, rt, dict) ==
    LET lg == Registered(dict, name)[name]
        hs == IF lg.propagate THEN rt.handlers ELSE <<>>
    IN  IF lg.disabled \/ lvl < EffectiveLevel(lg, rt) THEN {}
        ELSE IF hs = <<>> THEN (IF lvl >= WARNING THEN {"stderr"} ELSE {})
        ELSE {SinkOf(hs[i]) : i \in {j \in DOMAIN hs : lvl >= hs[j].level}}

(* What the configuration files of the model hold: the root logger's level,
   that it gets one handler, and the named loggers they configure. *)
FileCfg(path) ==
    CASE path = CustomPath ->
            [rootLevel |-> INFO, loggers |-> {"m"}, level |-> ERROR, propagate |-> FALSE]
      [] path = EnvPath ->
            [rootLevel |-> DEBUG, loggers |-> {}, level |-> NOTSET, propagate |-> TRUE]
      [] OTHER ->
            [rootLevel |-> WARNING, loggers |-> {}, level |-> NOTSET, propagate |-> TRUE]

(* Mutant: fileConfig's default, which disables the loggers that exist and
   are not named in the file. *)
DisableExistingDefault == TRUE

(* disable_existing_loggers as line 95 passes it. *)
disable_existing_loggers == FALSE

(* fileConfig's _install_loggers on the registry. *)
InstallLoggers(dict, cfg) ==
    [n \in DOMAIN dict \cup cfg.loggers |->
        IF n \in cfg.loggers
        THEN [Registered(dict, n)[n] EXCEPT !.level = cfg.level,
                                            !.propagate = cfg.propagate,
                                            !.disabled = FALSE]
        ELSE [dict[n] EXCEPT !.disabled = (@ \/ disable_existing_loggers)]]

(* fileConfig on the root logger: its handlers are removed and the file's
   handler is attached. *)
InstallRoot(cfg, inst) ==
    [level |-> cfg.rootLevel, handlers |-> <<Handler("config", NOTSET, inst)>>]

(* How far fileConfig gets on a malformed file before it raises: "parse"
   (nothing touched), "root" (the root's level set and its handlers removed,
   before the file's handler is attached), "loggers" (the root configured,
   before the named loggers are). *)
FailStages == {"parse", "root", "loggers"}

(* The level a malformed file gives the root logger before fileConfig fails. *)
MalformedRootLevels == {WARNING, CRITICAL}

FailedRoot(rt, level, inst, stage) ==
    CASE stage = "parse" -> rt
      [] stage = "root" -> [level |-> level, handlers |-> <<>>]
      [] OTHER -> [level |-> level, handlers |-> <<Handler("config", NOTSET, inst)>>]

(* Mutant: basicConfig without force=True does nothing when the root logger
   already has handlers. *)
basicConfigNoForce(rt, level, inst) ==
    IF rt.handlers # <<>> THEN rt
    ELSE [level |-> level, handlers |-> <<Handler("console", NOTSET, inst)>>]

(* Mutant: a force that removes only the console handlers. *)
basicConfigKeepFiles(rt, level, inst) ==
    [level |-> level,
     handlers |-> SelectSeq(rt.handlers, LAMBDA h : h.kind # "console")
                  \o <<Handler("console", NOTSET, inst)>>]

(* logging.basicConfig(level=..., force=True), lines 109-114: every handler
   of the root logger is removed and closed, one StreamHandler is added and
   the root's level is set. *)
basicConfig(rt, level, inst) ==
    [level |-> level, handlers |-> <<Handler("console", NOTSET, inst)>>]

(* Mutant: DEBUG for every value of the variable that is set and not "0". *)
log_level_truthy(debug_env) == IF debug_env \notin {None, "0"} THEN DEBUG ELSE INFO

(* Line 107: os.getenv("DEBUG", "0") == "1". *)
log_level(debug_env) ==
    IF (IF debug_env = None THEN "0" ELSE debug_env) = "1" THEN DEBUG ELSE INFO

DebugValues == {None, "0", "1", "true"}

(* Mutant: the handler is built and never added to the root logger. *)
AddFileHandlerMissing(rt, level, inst) == rt

(* Lines 121-128: the rotating file handler is appended to the root. *)
AddFileHandler(rt, level, inst) ==
    [rt EXCEPT !.handlers = Append(@, Handler("rotating_file", level, inst))]

(* logs/ and logs/app.log: "missing", present ("dir", "file"), or "blocked":
   it cannot be created or opened (a regular file named logs, a directory
   named app.log, a read-only working directory). *)
DiskStates ==
    { [dir |-> "missing", file |-> "missing"],
      [dir |-> "blocked", file |-> "missing"],
      [dir |-> "dir", file |-> "missing"],
      [dir |-> "dir", file |-> "file"],
      [dir |-> "dir", file |-> "blocked"] }

(* Mutant: mkdir without exist_ok raises when logs/ exists. *)
mkdir_no_exist_ok(d) == IF d.dir = "missing" THEN "ok" ELSE "raise"

(* Path.mkdir(parents=True, exist_ok=True), line 119. *)
mkdir(d) == IF d.dir = "blocked" THEN "raise" ELSE "ok"

(* RotatingFileHandler(...) opens logs/app.log for appending, line 121. *)
open_log(d) == IF d.file = "blocked" THEN "raise" ELSE "ok"

----------------------------------------------------------------------------
(* get_logger *)

(* Mutant: only an absent name gets the default; "" names the root logger. *)
effective_name_none_only(name) == IF name # None THEN name ELSE DEFAULT_LOGGER_NAME

(* Line 149: name if name else DEFAULT_LOGGER_NAME. *)
effective_name(name) == IF Truthy(name) THEN name ELSE DEFAULT_LOGGER_NAME

(* Identity of the root logger object, which logging.getLogger("") returns. *)
RootId == 0

(* get_logger(name): the registry after the call and the logger returned. *)
get_logger(dict, name) ==
    LET eff == effective_name(name)
        d == IF eff = "" THEN dict ELSE Registered(dict, eff)
    IN  [dict |-> d, id |-> IF eff = "" THEN RootId ELSE d[eff].id]

(* Names a caller passes to get_logger, and levels it sets on a handle. *)
GetLoggerArgs == {None, "", "m"}
SetLevels == {NOTSET, ERROR}
Slots == {1, 2}
NoHandle == [arg |-> None, id |-> -1]

----------------------------------------------------------------------------
(* setup_logging *)

NoCall ==
    [importing |-> FALSE, candidates |-> <<>>, resolved |-> None, status |-> None,
     lower |-> None, lowerStatus |-> None,
     debug |-> "unread", level |-> NOTSET,
     pre |-> FreshRoot, preDisk |-> [dir |-> "missing", file |-> "missing"],
     outcome |-> "none", errorSinks |-> {}, finalSinks |-> {}, loads |-> 0]

(* The candidates after the first occurrence of p. *)
RECURSIVE After(_, _)
After(candidates, p) ==
    IF candidates = <<>> THEN <<>>
    ELSE IF Head(candidates) = p THEN Tail(candidates)
    ELSE After(Tail(candidates), p)

StatusOf(fs, p) == IF p = None THEN None ELSE fs[p]

(* The paths a candidate list names. *)
PathsOf(candidates) == {candidates[i] : i \in DOMAIN candidates}

(* Lines 91 and 55-64: setup_logging starts; _resolve_logging_config_path
   reads the environment variable and builds its candidate list. *)
Begin(config_path, env_var, importing) ==
    /\ calls < MaxCalls
    /\ \E env_value \in EnvValues :
        call' = [NoCall EXCEPT !.importing = importing,
                               !.candidates = Candidates(config_path, env_value),
                               !.pre = root,
                               !.preDisk = disk,
                               !.outcome = "running"]
    /\ pc' = "probe"
    /\ calls' = calls + 1
    /\ trace' = <<>>
    /\ UNCHANGED <<probe, result, root, loggerDict, disk, fallbacks, held>>

(* Lines 66-74: the candidates are probed in order, on the filesystem of the
   moment (of which only the candidates' paths matter). *)
Probe ==
    /\ pc = "probe"
    /\ \E fs \in [PathsOf(call.candidates) -> FileStates] :
        LET resolved == FirstFile(call.candidates, fs)
            lower == FirstFile(After(call.candidates, resolved), fs)
        IN  /\ call' = [call EXCEPT !.candidates = <<>>,
                                    !.resolved = resolved,
                                    !.status = StatusOf(fs, resolved),
                                    !.lower = lower,
                                    !.lowerStatus = StatusOf(fs, lower)]
            /\ pc' = IF resolved # None THEN "load" ELSE "default"
    /\ trace' = <<"resolve">>
    /\ UNCHANGED <<probe, result, root, loggerDict, disk, calls, fallbacks, held>>

(* Line 154: importing the module calls setup_logging(). *)
Import ==
    /\ pc = "unloaded"
    /\ Begin(None, LOG_CFG, TRUE)

(* A caller calls setup_logging(config_path, env_var). *)
SetupCall ==
    /\ pc = "idle"
    /\ \E config_path \in Overrides, env_var \in EnvNames :
        Begin(config_path, env_var, FALSE)

(* Lines 94-99: fileConfig succeeds, the module logs a DEBUG record and
   setup_logging returns. *)
LoadOk ==
    /\ pc = "load"
    /\ call.status = "valid"
    /\ LET cfg == FileCfg(call.resolved)
       IN  /\ root' = InstallRoot(cfg, calls)
           /\ loggerDict' = Registered(InstallLoggers(loggerDict, cfg), MODULE_LOGGER)
    /\ call' = [call EXCEPT !.outcome = "file", !.loads = @ + 1]
    /\ trace' = trace \o <<"fileConfig", "debug_record", "return">>
    /\ fallbacks' = 0
    /\ pc' = "returned"
    /\ UNCHANGED <<probe, result, disk, calls, held>>

(* Mutant: after a failed load the next lower candidate is loaded. *)
after_load_failure_retry(c) ==
    IF c.lower # None
    THEN [pc |-> "load",
          call |-> [c EXCEPT !.resolved = c.lower, !.status = c.lowerStatus,
                             !.lower = None, !.lowerStatus = None]]
    ELSE [pc |-> "default", call |-> c]

(* Lines 100-106: after the except block control falls through to the
   default configuration. *)
after_load_failure(c) == [pc |-> "default", call |-> c]

(* Lines 94-104: fileConfig raises, the exception is caught and logged
   through the module's logger at ERROR. *)
LoadFail ==
    /\ pc = "load"
    /\ call.status = "malformed"
    /\ \E stage \in FailStages, level \in MalformedRootLevels :
        LET rt == FailedRoot(root, level, calls, stage)
            dict == Registered(loggerDict, MODULE_LOGGER)
            c == [call EXCEPT !.errorSinks = Sinks(MODULE_LOGGER, ERROR, rt, dict),
                              !.loads = @ + 1]
            nxt == after_load_failure(c)
        IN  /\ root' = rt
            /\ loggerDict' = dict
            /\ call' = nxt.call
            /\ pc' = nxt.pc
    /\ trace' = trace \o <<"fileConfig", "error_record">>
    /\ UNCHANGED <<probe, result, disk, calls, fallbacks, held>>

(* Lines 107-114: the level is chosen from DEBUG and basicConfig installs
   the console handler. *)
Default ==
    /\ pc = "default"
    /\ \E debug_env \in DebugValues :
        /\ call' = [call EXCEPT !.debug = debug_env, !.level = log_level(debug_env)]
        /\ root' = basicConfig(root, log_level(debug_env), calls)
    /\ trace' = trace \o <<"getenv_DEBUG", "basicConfig">>
    /\ pc' = "mkdir"
    /\ UNCHANGED <<probe, result, loggerDict, disk, calls, fallbacks, held>>

(* Mutant: the root logger is put back as it was before the call. *)
RaiseRollback ==
    /\ pc' = "raised"
    /\ call' = [call EXCEPT !.outcome = "raised"]
    /\ fallbacks' = 0
    /\ root' = call.pre
    /\ UNCHANGED <<probe, result, loggerDict, disk, calls, held>>

(* An exception of lines 119-121 leaves setup_logging: nothing catches it and
   nothing is undone. *)
Raise ==
    /\ pc' = "raised"
    /\ call' = [call EXCEPT !.outcome = "raised"]
    /\ fallbacks' = 0
    /\ UNCHANGED <<probe, result, root, loggerDict, disk, calls, held>>

(* Lines 118-119: logs/ is created when absent. *)
Mkdir ==
    /\ pc = "mkdir"
    /\ IF mkdir(disk) = "ok"
       THEN /\ disk' = [disk EXCEPT !.dir = "dir"]
            /\ trace' = Append(trace, "mkdir")
            /\ pc' = "open"
            /\ UNCHANGED <<probe, result, root, loggerDict, calls, call, fallbacks, held>>
       ELSE /\ trace' = Append(trace, "mkdir_raised")
            /\ Raise

(* Lines 121-130: the rotating file handler is opened and added to the root
   logger, and the module logs a DEBUG record. *)
OpenLog ==
    /\ pc = "open"
    /\ IF open_log(disk) = "ok"
       THEN LET rt == AddFileHandler(root, call.level, calls)
                dict == Registered(loggerDict, MODULE_LOGGER)
            IN  /\ disk' = [disk EXCEPT !.file = "file"]
                /\ root' = rt
                /\ loggerDict' = dict
                /\ call' = [call EXCEPT !.outcome = "fallback",
                                        !.finalSinks = Sinks(MODULE_LOGGER, DEBUG, rt, dict)]
                /\ trace' = trace \o <<"open", "addHandler", "debug_record", "return">>
                /\ fallbacks' = fallbacks + 1
                /\ pc' = "returned"
                /\ UNCHANGED <<probe, result, calls, held>>
       ELSE /\ trace' = Append(trace, "open_raised")
            /\ Raise

(* The caller goes on after setup_logging returned or raised, and the call's
   frame is gone; a module whose import raised is not loaded. *)
Continue ==
    /\ pc \in {"returned", "raised"}
    /\ pc' = IF pc = "raised" /\ call.importing THEN "unloaded" ELSE "idle"
    /\ call' = NoCall
    /\ trace' = <<>>
    /\ UNCHANGED <<probe, result, root, loggerDict, disk, calls, fallbacks, held>>

(* The world changes logs/ between calls. *)
DiskChange ==
    /\ pc \in {"unloaded", "idle"}
    /\ \E d \in DiskStates \ {disk} : disk' = d
    /\ UNCHANGED <<pc, probe, result, root, loggerDict, calls, call, trace, fallbacks, held>>

(* A caller calls get_logger(name) and keeps the handle. *)
GetLogger ==
    /\ pc = "idle"
    /\ \E slot \in Slots, name \in GetLoggerArgs :
        LET r == get_logger(loggerDict, name)
        IN  /\ loggerDict' = r.dict
            /\ held' = [held EXCEPT ![slot] = [arg |-> name, id |-> r.id]]
    /\ UNCHANGED <<pc, probe, result, root, disk, calls, call, trace, fallbacks>>

(* A caller sets the level of the logger a handle refers to. *)
SetLevel ==
    /\ pc = "idle"
    /\ \E slot \in Slots, lvl \in SetLevels :
        /\ held[slot] # NoHandle
        /\ held[slot].id # RootId
        /\ loggerDict' = [n \in DOMAIN loggerDict |->
                            IF loggerDict[n].id = held[slot].id
                            THEN [loggerDict[n] EXCEPT !.level = lvl]
                            ELSE loggerDict[n]]
        /\ loggerDict' # loggerDict
    /\ UNCHANGED <<pc, probe, result, root, disk, calls, call, trace, fallbacks, held>>

----------------------------------------------------------------------------
(* Specifications *)

NoProbe == [override_path |-> None, env_var |-> LOG_CFG,
            environ |-> [n \in EnvNames |-> None],
            fs |-> [p \in Paths |-> "missing"]]

InitBackend ==
    /\ root = FreshRoot
    /\ loggerDict = <<>>
    /\ disk = [dir |-> "missing", file |-> "missing"]
    /\ calls = 0
    /\ call = NoCall
    /\ trace = <<>>
    /\ fallbacks = 0
    /\ held = [s \in Slots |-> NoHandle]

(* A fresh interpreter that has not imported the module. *)
Init ==
    /\ pc = "unloaded"
    /\ probe = NoProbe
    /\ result = "pending"
    /\ InitBackend

SetupStep == Import \/ SetupCall \/ Probe \/ LoadOk \/ LoadFail \/ Default \/ Mkdir \/ OpenLog \/ Continue

Next == SetupStep \/ DiskChange

Spec == Init /\ [][Next]_vars

NextLoggers == SetupStep \/ GetLogger \/ SetLevel

SpecLoggers == Init /\ [][NextLoggers]_vars

(* A bare call of _resolve_logging_config_path on given inputs. *)
InitResolve ==
    /\ pc = "resolve"
    /\ probe \in [override_path : Overrides, env_var : EnvNames,
                  environ : Environments, fs : FileSystems]
    /\ result = "pending"
    /\ InitBackend

Resolve ==
    /\ pc = "resolve"
    /\ result' = resolve_logging_config_path(probe.override_path, probe.env_var,
                                             probe.environ, probe.fs)
    /\ pc' = "resolved"
    /\ UNCHANGED <<probe, root, loggerDict, disk, calls, call, trace, fallbacks, held>>

NextResolve == Resolve

SpecResolve == InitResolve /\ [][NextResolve]_vars

----------------------------------------------------------------------------
(* Properties *)

Done == pc \in {"returned", "raised"}
FallbackDone == pc = "returned" /\ call.outcome = "fallback"
Kinds(rt) == [i \in DOMAIN rt.handlers |-> rt.handlers[i].kind]
Steps == {trace[i] : i \in DOMAIN trace}
Position(step) == CHOOSE i \in DOMAIN trace : trace[i] = step
BothSinks == {"stderr", "logs/app.log"}
LevelsFrom(lvl) == {l \in {DEBUG, INFO, WARNING, ERROR, CRITICAL} : l >= lvl}
DiskBlocked(d) == d.dir = "blocked" \/ d.file = "blocked"

(* The candidates as the specification lists them: the override when given,
   the environment variable's value when set, the default path. "" names the
   working directory, which is not a regular file. *)
SpecCandidates(p) ==
    (IF p.override_path # None THEN <<p.override_path>> ELSE <<>>)
    \o (IF p.environ[p.env_var] # None THEN <<p.environ[p.env_var]>> ELSE <<>>)
    \o <<"config/logging.conf">>
IsRegularFile(p, path) == path \in Paths /\ p.fs[path] \in {"valid", "malformed"}
FirstRegularFile(p) ==
    LET c == SpecCandidates(p)
        hits == {i \in DOMAIN c : IsRegularFile(p, c[i])}
    IN  IF hits = {} THEN None
        ELSE c[CHOOSE i \in hits : \A j \in hits : i <= j]

(* C1: resolvePath returns the first of [override, env-var value, default
   path] that is a regular file, a candidate whose probe raises counting as
   absent, and None exactly when no candidate is a regular file. *)
C1_ResolveFirstRegularFile ==
    pc = "resolved" =>
        /\ result = FirstRegularFile(probe)
        /\ (result = None <=> \A i \in DOMAIN SpecCandidates(probe) :
                                ~IsRegularFile(probe, SpecCandidates(probe)[i]))
        /\ (IsRegularFile(probe, probe.override_path) => result = probe.override_path)

(* The override's probe raises and the environment variable's file is
   returned, although the default file exists too. *)
C1_Witness ==
    /\ pc = "resolved"
    /\ probe.override_path = CustomPath
    /\ probe.fs[CustomPath] = "error"
    /\ probe.environ[probe.env_var] = EnvPath
    /\ probe.fs[DEFAULT_LOGGING_CONF_PATH] = "valid"
    /\ result = EnvPath

(* C2, as claimed: setupLogging never raises to its caller. *)
C2_NeverRaises == pc # "raised"

(* C2, amended: setupLogging raises exactly when it takes the fallback path
   (no file resolved, or the resolved file malformed) while logs/ cannot be
   created or logs/app.log cannot be opened; in every other case it returns
   with handlers installed on the root logger. *)
C2_RaisesOnlyWhenLogsBlocked ==
    Done =>
        /\ pc = "raised" <=> (call.status # "valid" /\ DiskBlocked(call.preDisk))
        /\ pc = "returned" => root.handlers # <<>>

(* A malformed file with logs/ absent: the call returns. *)
C2_Witness ==
    /\ pc = "returned"
    /\ call.status = "malformed"
    /\ call.preDisk.dir = "missing"

(* C3, as claimed: after a fallback installation a record at or above the
   fallback level reaches console and logs/app.log through any named logger. *)
C3_AnyLoggerReachesBothSinks ==
    FallbackDone =>
        \A n \in LoggerNames : \A lvl \in LevelsFrom(call.level) :
            BothSinks \subseteq Sinks(n, lvl, root, loggerDict)

(* A logger with no settings of its own: not yet created, or as created. *)
Unconfigured(n) ==
    n \in DOMAIN loggerDict =>
        /\ loggerDict[n].level = NOTSET
        /\ loggerDict[n].propagate
        /\ ~loggerDict[n].disabled

(* C3, amended: after a fallback installation the root logger carries the
   console handler and the rotating file handler, and a record at or above
   the fallback level reaches both through every named logger that has no
   level, propagate or disabled setting of its own; after a malformed file
   the failure was logged at ERROR through the module's logger before
   basicConfig ran. *)
C3_FallbackGuarantee ==
    FallbackDone =>
        /\ Kinds(root) = <<"console", "rotating_file">>
        /\ \A n \in LoggerNames : \A lvl \in LevelsFrom(call.level) :
              Unconfigured(n) => Sinks(n, lvl, root, loggerDict) = BothSinks
        /\ call.status = "malformed" =>
              /\ {"error_record", "basicConfig"} \subseteq Steps
              /\ Position("error_record") < Position("basicConfig")
        /\ call.status # "malformed" => "error_record" \notin Steps

(* The fallback after a malformed file, with a logger that an earlier
   configuration file gave settings of its own. *)
C3_Witness ==
    /\ FallbackDone
    /\ call.status = "malformed"
    /\ "m" \in DOMAIN loggerDict
    /\ ~Unconfigured("m")

NumFileHandlers(rt) == Cardinality({i \in DOMAIN rt.handlers : rt.handlers[i].kind = "rotating_file"})

(* C4, as claimed: each fallback call appends another rotating file handler,
   so after N consecutive fallback calls the root logger holds N of them. *)
C4_FileHandlersAccumulate ==
    FallbackDone => NumFileHandlers(root) = fallbacks

(* C4, amended: after any number of consecutive fallback calls the root
   logger holds exactly one console handler and one rotating file handler,
   both created by the last call. *)
C4_FallbackHandlersReplaced ==
    FallbackDone =>
        /\ Len(root.handlers) = 2
        /\ NumFileHandlers(root) = 1
        /\ \A i \in DOMAIN root.handlers : root.handlers[i].inst = calls

(* Two fallback installations in a row. *)
C4_Witness == FallbackDone /\ fallbacks >= 2

(* The name get_logger uses, as the specification gives it. *)
SpecName(arg) == IF arg = None \/ arg = "" THEN "predictive_maintenance_system" ELSE arg
LoggerOf(h) == CHOOSE n \in DOMAIN loggerDict : loggerDict[n].id = h.id

(* C5: a handle from get_logger refers to the registry's logger of the
   effective name (the default name for an absent or empty name), so two
   handles of the same effective name are the same logger and show the same
   level, whatever setup_logging calls happen in between. *)
C5_SameNameSameLogger ==
    \A s \in Slots : \A t \in Slots :
        (held[s] # NoHandle /\ held[t] # NoHandle) =>
            /\ SpecName(held[s].arg) \in DOMAIN loggerDict
            /\ loggerDict[SpecName(held[s].arg)].id = held[s].id
            /\ SpecName(held[s].arg) = SpecName(held[t].arg) =>
                  /\ held[s].id = held[t].id
                  /\ loggerDict[LoggerOf(held[s])].level = loggerDict[LoggerOf(held[t])].level

(* Handles got with no name and with the empty name, after the level was
   set through one of them and setup_logging ran again. *)
C5_Witness ==
    /\ held[1].arg = None /\ held[1] # NoHandle
    /\ held[2].arg = ""
    /\ held[1].id = held[2].id
    /\ loggerDict[DEFAULT_LOGGER_NAME].level = ERROR
    /\ calls >= 2

(* C6: on the fallback path the level is DEBUG exactly when DEBUG is "1" and
   INFO otherwise, the root logger and the rotating file handler both get
   it, and a DEBUG record reaches the sinks iff DEBUG is "1". *)
C6_FallbackLevel ==
    FallbackDone =>
        /\ call.level = (IF call.debug = "1" THEN DEBUG ELSE INFO)
        /\ root.level = call.level
        /\ \A i \in DOMAIN root.handlers :
              root.handlers[i].kind = "rotating_file" => root.handlers[i].level = call.level
        /\ call.finalSinks = (IF call.debug = "1" THEN BothSinks ELSE {})

(* DEBUG is set to a value other than "1" and the level is INFO. *)
C6_Witness ==
    /\ FallbackDone
    /\ call.debug = "true"
    /\ root.level = INFO

(* C7: once basicConfig has run, and when any setup_logging call is over,
   the root logger holds only handlers created by that call. *)
C7_OnlyLatestInstallation ==
    (pc \in {"mkdir", "open", "returned", "raised"}) =>
        \A i \in DOMAIN root.handlers : root.handlers[i].inst = calls

(* A fallback installation over the handler a configuration file left. *)
C7_Witness ==
    /\ FallbackDone
    /\ call.pre.handlers # <<>>
    /\ call.pre.handlers[1].kind = "config"

(* C8: after a successful load setup_logging has returned at once: the root
   logger holds the file's handler only, logs/ and logs/app.log are as
   before, DEBUG was not read, no fallback step ran, no logger is disabled. *)
C8_FileLoadReturnsAtOnce ==
    (pc = "returned" /\ call.outcome = "file") =>
        /\ trace = <<"resolve", "fileConfig", "debug_record", "return">>
        /\ Kinds(root) = <<"config">>
        /\ disk = call.preDisk
        /\ call.debug = "unread"
        /\ \A n \in DOMAIN loggerDict : ~loggerDict[n].disabled

(* A successful load when loggers exist, the fallback is installed and
   logs/ is absent. *)
C8_Witness ==
    /\ pc = "returned" /\ call.outcome = "file"
    /\ Len(call.pre.handlers) = 2
    /\ disk.dir = "missing"
    /\ MODULE_LOGGER \in DOMAIN loggerDict

(* C9: when the resolved file is malformed, fileConfig is tried once, the
   failure is logged and the default configuration is installed next; no
   lower candidate is loaded. *)
C9_NoRetryAfterMalformed ==
    /\ Done => call.loads <= 1
    /\ (Done /\ call.status = "malformed") =>
        /\ call.loads = 1
        /\ call.outcome # "file"
        /\ SubSeq(trace, 1, 5) = <<"resolve", "fileConfig", "error_record",
                                   "getenv_DEBUG", "basicConfig">>
        /\ \A i \in DOMAIN root.handlers : root.handlers[i].kind # "config"

(* The malformed file shadows a valid lower candidate. *)
C9_Witness ==
    /\ pc = "returned"
    /\ call.status = "malformed"
    /\ call.lowerStatus = "valid"

(* C10: when logs/ cannot be created or logs/app.log cannot be opened on the
   fallback path, setup_logging raises, and the root logger is left with the
   new console handler and level only: the earlier handlers are gone and no
   rotating file handler is attached. *)
C10_RaiseLeavesPartialFallback ==
    /\ (Done /\ call.status # "valid" /\ DiskBlocked(call.preDisk)) => pc = "raised"
    /\ pc = "raised" =>
        /\ Kinds(root) = <<"console">>
        /\ root.handlers[1].inst = calls
        /\ root.level = call.level
        /\ call.level \in {DEBUG, INFO}
        /\ root # call.pre
        /\ trace[Len(trace)] \in {"mkdir_raised", "open_raised"}

(* The call raises over a complete fallback installation. *)
C10_Witness ==
    /\ pc = "raised"
    /\ Kinds(call.pre) = <<"console", "rotating_file">>

====
